---- MODULE Spec2Model ----
(***************************************************************************)
(* A model of CNStorageEngine (src/src/main.ts; src/unnamed/part_000 is a  *)
(* later revision with the same lifecycle code): a registry of LevelDB     *)
(* handles, opened lazily by getStore, closed by a periodic sweep          *)
(* (checkStorage) and by stop().                                           *)
(*                                                                         *)
(* Scheduling is that of one Node.js event loop.  A handler runs without   *)
(* interruption up to its next `await`; the continuation of an await runs  *)
(* as a microtask, before any further request, timer or I/O completion is  *)
(* handled.  One action of the model is one such uninterrupted run.        *)
(*                                                                         *)
(* Time is counted in units of 1000 ms (the unit of KEEP_OPEN_INTERVAL).   *)
(* The code compares Date.now() with lastAccessed and a timer with its     *)
(* period, and nothing else, so the model keeps time relative: for each    *)
(* entry the time since its last access (counted up to one past the        *)
(* interval, beyond which the code cannot tell values apart), for each     *)
(* timer the time until it is due.                                         *)
(*                                                                         *)
(* Store names are plain path segments: distinct names are distinct        *)
(* directories under STORAGE_DIR.                                          *)
(***************************************************************************)
EXTENDS Integers, Sequences, FiniteSets

\* ---------------------------------------------------------------- bounds
MaxHandles == 3
MaxReqs == 1
MaxCalls == 3
MaxSweeps == 2
MaxStarts == 1
MaxCloseCount == 2
MaxKeyLen == 3

Names == {"s1", "s2"}
Keys == {"k1"}
Values == {"v1", "v2"}
KeepOpenChoices == {0, 2}

Handles == 1..MaxHandles
Sweepers == 1..MaxSweeps
Timers == 1..(MaxStarts + 1)

Absent == <<"absent">>
Unknown == "unknown"
Deleted == "deleted"
Null == "null"
True == "true"
False == "false"

VARIABLES
    keepOpenInterval,  \* this._keepOpenInterval
    timerDue,          \* the intervals set by start(): time until due, -1 = none/cleared
    nstarts,           \* number of start() calls so far
    closeStorageTimer, \* this._closeStorageTimer: 0 = undefined
    stores,            \* this._stores: the StoreDetails in insertion order
    hname,             \* StoreDetails.name of each StoreDetails/db created so far
    hstatus,           \* state of each db: "none" (not created), "open", "closing",
                       \* "closed", "broken" (close failed), "lockfail" (open failed)
    age,               \* Date.now() - StoreDetails.lastAccessed
    closeCount,        \* number of db.close() calls made on each db (saturating)
    disk,              \* the LevelDB directory of each store name
    ncalls,            \* number of get/write/del calls made so far
    reqs,              \* get/write/del calls awaiting their db call
    last,              \* the get/write/del call that has just returned
    sweeps,            \* the checkStorage() calls in progress
    swept,             \* history: what the checkStorage() call that has just ended
                       \* found idle when it began
    stopPc, stopH, stopVisited, \* the stop() call: position, db awaited, entries visited
    settled,           \* history: the value a key is known to hold (the value of the
                       \* last write or del that returned success, none being in
                       \* progress), and the db it was written through
    regular,           \* history: the entry was accessed at least every T/2 since created
    route              \* the HTTP routes: the last request served, the id the create
                       \* route returned, and the arguments the route handed on

engineVars == <<keepOpenInterval, timerDue, nstarts, closeStorageTimer, stores, hname,
          hstatus, age, closeCount, disk, ncalls, reqs, last, sweeps, swept, stopPc,
          stopH,
          stopVisited, settled, regular>>

vars == <<engineVars, route>>

\* ------------------------------------------------------------- helpers
Range(s) == {s[i] : i \in 1..Len(s)}

RECURSIVE Select(_, _)
\* the elements of sequence s that are in set S, in order
Select(s, S) ==
    IF s = <<>> THEN <<>>
    ELSE IF Head(s) \in S THEN <<Head(s)>> \o Select(Tail(s), S)
    ELSE Select(Tail(s), S)

\* this._stores.get(name): the handle of the entry, 0 for undefined
Lookup(name) ==
    IF \E h \in Range(stores) : hname[h] = name
    THEN CHOOSE h \in Range(stores) : hname[h] = name
    ELSE 0

\* (variant: a lookup that finds nothing)
HasStoreNever(name) == FALSE

\* details !== undefined
HasStore(name) == Lookup(name) # 0

\* this._stores.delete(name)
MapDelete(m, name) == Select(m, {h \in Range(m) : hname[h] # name})

\* (variant: every store in the one directory)
LocationShared(name) == "s1"

\* `${this._storageDir}/${name}`: the directory of a store
Location(name) == name

\* LevelDB holds an exclusive lock on a directory from open until close completes
LockHeld(loc) ==
    \E h \in Handles : /\ hstatus[h] \in {"open", "closing", "broken"}
                       /\ Location(hname[h]) = loc

NextHandle ==
    CHOOSE h \in Handles : hstatus[h] = "none" /\ \A g \in 1..(h-1) : hstatus[g] # "none"

\* Store names are interchangeable: the first store opened is called s1.
UsableNames == {n \in Names : n = "s1" \/ \E h \in Handles : hname[h] = "s1"}

\* No continuation of an await is waiting to run.
NoMicrotasks ==
    /\ \A p \in Sweepers : sweeps[p].pc # "ready"
    /\ stopPc # "ready"

\* The process exits when stop() has ended.
Exited == stopPc \in {"done", "failed"}

NoSettled == [val |-> Unknown, h |-> 0]
NoLast == [op |-> "none", h |-> 0, expect |-> NoSettled, fault |-> FALSE,
           failed |-> FALSE, stored |-> Absent, result |-> Null]
IdleSweep == [pc |-> "idle", closed |-> <<>>, sel |-> {}]
NoRoute == [op |-> "none", name |-> <<>>, key |-> <<>>, id |-> <<>>, args |-> <<>>]

\* The engine as constructed; MaxCalls - made calls fit the budget of calls.
Fresh(made) ==
    /\ keepOpenInterval \in KeepOpenChoices
    /\ timerDue = [t \in Timers |-> -1]
    /\ nstarts = 0
    /\ closeStorageTimer = 0
    /\ stores = <<>>
    /\ hname = [h \in Handles |-> "none"]
    /\ hstatus = [h \in Handles |-> "none"]
    /\ age = [h \in Handles |-> 0]
    /\ closeCount = [h \in Handles |-> 0]
    /\ disk = [n \in {Location(n) : n \in Names} |-> [k \in Keys |-> Absent]]
    /\ ncalls = made
    /\ reqs = {}
    /\ last = NoLast
    /\ sweeps = [p \in Sweepers |-> IdleSweep]
    /\ swept = {}
    /\ stopPc = "idle"
    /\ stopH = 0
    /\ stopVisited = {}
    /\ settled = [n \in Names |-> [k \in Keys |-> NoSettled]]
    /\ regular = [h \in Handles |-> FALSE]
    /\ route = NoRoute

Init == Fresh(0)

\* what an action that is no return of get/write/del leaves in the history
NoReturn ==
    /\ last' = NoLast
    /\ swept' = {}

\* ------------------------------------------------------------ getStore
\* getStore(name), returning the StoreDetails h: an existing entry has its
\* lastAccessed set to now; otherwise a new StoreDetails with a new db is
\* inserted.  levelup(leveldown(dir)) cannot open a directory whose lock another
\* db still holds: every call on such a db fails.
GetStore(name, h) ==
    IF HasStore(name)
    THEN /\ h = Lookup(name)
         /\ age' = [age EXCEPT ![h] = 0]
         /\ UNCHANGED <<stores, hname, hstatus, regular>>
    ELSE /\ \E g \in Handles : hstatus[g] = "none"
         /\ h = NextHandle
         /\ hname' = [hname EXCEPT ![h] = name]
         /\ hstatus' = [hstatus EXCEPT
                          ![h] = IF LockHeld(Location(name)) THEN "lockfail" ELSE "open"]
         /\ age' = [age EXCEPT ![h] = 0]
         /\ stores' = Append(stores, h)
         /\ regular' = [regular EXCEPT ![h] = TRUE]

\* ------------------------------------------------------ get / write / del
\* The bytes LevelDB stores for a string, and Buffer.toString() of them.
Utf8(v) == <<"utf8", v>>
BufToString(b) == b[2]

Mutates(op) == op \in {"write", "del"}

\* The synchronous part of get/write/del: getStore, then the db call is made.
\* levelup refuses a call at once unless the db is open ("Database is not open").
\* (History: `sub` marks a get made when the key's value is settled; a later
\* write or del of the key unmarks it.)
\* `most` is the number of calls the callers keep in flight at most.
CallWithin(most, op, name, key, value) ==
    /\ NoMicrotasks
    /\ ~Exited
    /\ name \in UsableNames
    /\ Cardinality(reqs) < most
    /\ ncalls < MaxCalls
    /\ ncalls' = ncalls + 1
    /\ \E h \in Handles :
         /\ GetStore(name, h)
         /\ LET r == [op |-> op, name |-> name, key |-> key, value |-> value, h |-> h,
                      accepted |-> (hstatus'[h] = "open"),
                      sub |-> (op = "get" /\ settled[name][key] # NoSettled)]
                old == IF Mutates(op)
                       THEN {IF q.name = name /\ q.key = key
                             THEN [q EXCEPT !.sub = FALSE] ELSE q : q \in reqs}
                       ELSE reqs
            IN  /\ r \notin old
                /\ reqs' = old \cup {r}
    /\ settled' = IF Mutates(op) THEN [settled EXCEPT ![name][key] = NoSettled]
                  ELSE settled
    /\ NoReturn
    /\ UNCHANGED <<keepOpenInterval, timerDue, nstarts, closeStorageTimer,
                   closeCount, disk, sweeps, stopPc, stopH, stopVisited,
                   route>>

Call(op, name, key, value) == CallWithin(MaxReqs, op, name, key, value)

Get(name, key) == Call("get", name, key, Null)
Write(name, key, value) == Call("write", name, key, value)
Del(name, key) == Call("del", name, key, Null)

\* (variant: del that leaves the key in place)
DbDelKeeps(d, key) == d

\* What db.put / db.del leave in the directory when they succeed.
DbPut(d, key, value) == [d EXCEPT ![key] = Utf8(value)]
DbDel(d, key) == [d EXCEPT ![key] = Absent]

\* get: `value` after `await store.db.get(key).catch(...)`; db.get rejects when the
\* call fails and when the key is not found, and the catch handler returns undefined.
GetResult(rejected, stored) ==
    IF rejected \/ stored = Absent THEN Null ELSE BufToString(stored)

\* (variant: write that reports success whatever put did)
WriteResultAlways(rejected) == True

\* write / del: `written` / `deleted`, set to false by the catch handler.
WriteResult(rejected) == IF rejected THEN False ELSE True
DelResult(rejected) == IF rejected THEN False ELSE True

\* The db call of r settles and r returns.  The call fails when the db refused it or
\* (fault) the persistence layer reports an I/O error.
Return(r, fault) ==
    /\ NoMicrotasks
    /\ ~Exited
    /\ r \in reqs
    /\ fault => r.accepted
    /\ LET loc == Location(r.name)
           failed == ~r.accepted \/ fault
           stored == disk[loc][r.key]
           others == {q \in reqs \ {r} : Mutates(q.op) /\ q.name = r.name /\ q.key = r.key}
           result == CASE r.op = "get" -> GetResult(failed, stored)
                       [] r.op = "write" -> WriteResult(failed)
                       [] r.op = "del" -> DelResult(failed)
       IN  /\ disk' = CASE failed -> disk
                        [] r.op = "write" -> [disk EXCEPT ![loc] = DbPut(@, r.key, r.value)]
                        [] r.op = "del" -> [disk EXCEPT ![loc] = DbDel(@, r.key)]
                        [] OTHER -> disk
           /\ settled' =
                CASE result # True \/ others # {} -> settled
                  [] r.op = "write" ->
                       [settled EXCEPT ![r.name][r.key] = [val |-> r.value, h |-> r.h]]
                  [] r.op = "del" /\ stored # Absent ->
                       [settled EXCEPT ![r.name][r.key] = [val |-> Deleted, h |-> r.h]]
                  [] OTHER -> settled
           /\ last' = [op |-> r.op, h |-> r.h,
                       expect |-> IF r.sub THEN settled[r.name][r.key] ELSE NoSettled,
                       fault |-> fault, failed |-> failed, stored |-> stored,
                       result |-> result]
    /\ reqs' = reqs \ {r}
    /\ UNCHANGED ncalls
    /\ swept' = {}
    /\ UNCHANGED <<keepOpenInterval, timerDue, nstarts, closeStorageTimer, stores,
                   hname, hstatus, age, closeCount, sweeps, stopPc, stopH,
                   stopVisited, regular, route>>

DbSettles(r) == Return(r, FALSE)
DbFails(r) == Return(r, TRUE)

\* ------------------------------------------------------------ db.close()
\* levelup's close(): an open db starts closing; a db that is already closing
\* reports back when that close ends; a db that is not open reports back at once.
\* The caller's position after calling `await db.close()`:
ClosePc(h) ==
    CASE hstatus[h] = "open" -> "awaitInit"
      [] hstatus[h] = "closing" -> "awaitJoin"
      [] OTHER -> "ready"

CloseCalled(h) ==
    /\ hstatus' = [hstatus EXCEPT ![h] = IF @ = "open" THEN "closing" ELSE @]
    /\ closeCount' = [closeCount EXCEPT
                        ![h] = IF @ < MaxCloseCount THEN @ + 1 ELSE MaxCloseCount]

Awaiting(pc) == pc \in {"awaitInit", "awaitJoin"}

\* The close of db h ends (ok), or fails (~ok): the caller that started it gets the
\* error, which nothing catches, so its checkStorage() or stop() call ends there;
\* callers that joined the close resume.  LevelDB ends a close only after the calls
\* it accepted have settled.
CloseEnds(h, ok) ==
    /\ NoMicrotasks
    /\ ~Exited
    /\ hstatus[h] = "closing"
    /\ \A r \in reqs : r.h = h => ~r.accepted
    /\ hstatus' = [hstatus EXCEPT ![h] = IF ok THEN "closed" ELSE "broken"]
    /\ sweeps' = [p \in Sweepers |->
                    IF Awaiting(sweeps[p].pc) /\ Head(sweeps[p].closed) = h
                    THEN IF ok \/ sweeps[p].pc = "awaitJoin"
                         THEN [sweeps[p] EXCEPT !.pc = "ready"]
                         ELSE IdleSweep
                    ELSE sweeps[p]]
    /\ stopPc' = IF Awaiting(stopPc) /\ stopH = h
                 THEN IF ok \/ stopPc = "awaitJoin" THEN "ready" ELSE "failed"
                 ELSE stopPc
    /\ NoReturn
    /\ UNCHANGED <<keepOpenInterval, timerDue, nstarts, closeStorageTimer, stores,
                   hname, age, closeCount, disk, ncalls, reqs, stopH, stopVisited,
                   settled, regular, route>>

CloseDone(h) == CloseEnds(h, TRUE)
CloseFails(h) == CloseEnds(h, FALSE)

\* ---------------------------------------------------------- checkStorage
\* (variant: a test that no entry ever meets)
IsIdleNever(h) == age[h] > keepOpenInterval + 1

\* the test of checkStorage's first loop: now - v.lastAccessed > this._keepOpenInterval
IsIdle(h) == age[h] > keepOpenInterval

\* checkStorage() with the list `closed` left to close: the loop body up to the
\* await of the first close, or the end of the call when the list is empty.
SweepLoop(p, closed, sel) ==
    IF closed = <<>>
    THEN /\ sweeps' = [sweeps EXCEPT ![p] = IdleSweep]
         /\ swept' = sel
         /\ UNCHANGED <<hstatus, closeCount>>
    ELSE /\ sweeps' = [sweeps EXCEPT ![p] = [pc |-> ClosePc(Head(closed)),
                                             closed |-> closed, sel |-> sel]]
         /\ swept' = {}
         /\ CloseCalled(Head(closed))

FreeSweeper(p) ==
    /\ sweeps[p].pc = "idle"
    /\ \A q \in 1..(p-1) : sweeps[q].pc # "idle"

\* The interval t fires: checkStorage() up to its first await.
\* (History: sel is the set of entries not accessed for longer than the interval.)
CheckStorage(t) ==
    /\ NoMicrotasks
    /\ ~Exited
    /\ timerDue[t] = 0
    /\ timerDue' = [timerDue EXCEPT ![t] = keepOpenInterval]
    /\ \E p \in Sweepers :
         /\ FreeSweeper(p)
         /\ SweepLoop(p, Select(stores, {h \in Range(stores) : IsIdle(h)}),
                      {h \in Range(stores) : age[h] > keepOpenInterval})
    /\ last' = NoLast
    /\ UNCHANGED <<keepOpenInterval, nstarts, closeStorageTimer, stores, hname,
                   age, disk, ncalls, reqs, stopPc, stopH, stopVisited, settled,
                   regular, route>>

\* checkStorage() resumes after `await details.db.close()`:
\* this._stores.delete(details.name), then the next turn of the loop.
CheckStorageResume(p) ==
    /\ ~Exited
    /\ sweeps[p].pc = "ready"
    /\ LET details == Head(sweeps[p].closed)
       IN  /\ stores' = MapDelete(stores, hname[details])
           /\ age' = [h \in Handles |-> IF h \in Range(stores') THEN age[h] ELSE 0]
    /\ SweepLoop(p, Tail(sweeps[p].closed), sweeps[p].sel)
    /\ last' = NoLast
    /\ UNCHANGED <<keepOpenInterval, timerDue, nstarts, closeStorageTimer,
                   hname, disk, ncalls, reqs, stopPc, stopH, stopVisited, settled,
                   regular, route>>

\* ------------------------------------------------------------ start / stop
\* (variant: a start() that sets the timer whatever the interval)
SetsTimerAlways == TRUE

\* start(): this._keepOpenInterval !== 0
SetsTimer == keepOpenInterval # 0

\* start(), for a caller that calls it at most `most` times
StartUpTo(most) ==
    /\ NoMicrotasks
    /\ ~Exited
    /\ nstarts < most
    /\ nstarts' = nstarts + 1
    /\ IF SetsTimer
       THEN /\ timerDue' = [timerDue EXCEPT ![nstarts + 1] = keepOpenInterval]
            /\ closeStorageTimer' = nstarts + 1
       ELSE UNCHANGED <<timerDue, closeStorageTimer>>
    /\ NoReturn
    /\ UNCHANGED <<keepOpenInterval, stores, hname, hstatus, age,
                   closeCount, disk, ncalls, reqs, sweeps, stopPc, stopH, stopVisited,
                   settled, regular, route>>

Start == StartUpTo(MaxStarts)

\* start() called before stop() is, possibly once more than Start allows
StartAgain == stopPc = "idle" /\ StartUpTo(MaxStarts + 1)

\* clearInterval(this._closeStorageTimer)
ClearInterval(td, t) == IF t = 0 THEN td ELSE [td EXCEPT ![t] = -1]

\* One turn of stop()'s loop over this._stores, up to the await of the close.  The
\* Map iterator is live: it goes on to the first entry, in insertion order, that it
\* has not visited, entries inserted during the loop included.
StopLoop ==
    LET todo == Select(stores, Range(stores) \ stopVisited)
    IN  IF todo = <<>>
        THEN /\ stopPc' = "done"
             /\ stopH' = 0
             /\ UNCHANGED <<stopVisited, hstatus, closeCount>>
        ELSE /\ stopPc' = ClosePc(Head(todo))
             /\ stopH' = Head(todo)
             /\ stopVisited' = stopVisited \cup {Head(todo)}
             /\ CloseCalled(Head(todo))

Stop ==
    /\ NoMicrotasks
    /\ stopPc = "idle"
    /\ timerDue' = ClearInterval(timerDue, closeStorageTimer)
    /\ StopLoop
    /\ NoReturn
    /\ UNCHANGED <<keepOpenInterval, nstarts, closeStorageTimer, stores, hname,
                   age, disk, ncalls, reqs, sweeps,
                   settled, regular, route>>

StopResume ==
    /\ stopPc = "ready"
    /\ StopLoop
    /\ NoReturn
    /\ UNCHANGED <<keepOpenInterval, timerDue, nstarts, closeStorageTimer, stores,
                   hname, age, disk, ncalls, reqs, sweeps, settled, regular, route>>

\* ------------------------------------------------------------------ time
\* One unit of time passes.  A timer that is due may fire late, never early.
Tick ==
    /\ NoMicrotasks
    /\ ~Exited
    /\ age' = [h \in Handles |->
                 IF h \in Range(stores) /\ age[h] <= keepOpenInterval
                 THEN age[h] + 1 ELSE age[h]]
    /\ timerDue' = [t \in Timers |-> IF timerDue[t] > 0 THEN timerDue[t] - 1
                                     ELSE timerDue[t]]
    /\ regular' = [h \in Handles |-> regular[h] /\ age'[h] * 2 <= keepOpenInterval]
    /\ NoReturn
    /\ UNCHANGED <<keepOpenInterval, nstarts, closeStorageTimer, stores,
                   hname, hstatus, closeCount, disk, ncalls, reqs, sweeps,
                   stopPc, stopH, stopVisited, settled, route>>

Next ==
    \/ Start
    \/ Stop
    \/ StopResume
    \/ Tick
    \/ \E n \in Names, k \in Keys : Get(n, k)
    \/ \E n \in Names, k \in Keys, v \in Values : Write(n, k, v)
    \/ \E n \in Names, k \in Keys : Del(n, k)
    \/ \E r \in reqs : DbSettles(r)
    \/ \E r \in reqs : DbFails(r)
    \/ \E t \in Timers : CheckStorage(t)
    \/ \E p \in Sweepers : CheckStorageResume(p)
    \/ \E h \in Handles : CloseDone(h)
    \/ \E h \in Handles : CloseFails(h)

Spec == Init /\ [][Next]_vars

\* The same, for a caller that may call start() once more, and never calls it once
\* it has called stop().
NextRestart ==
    \/ StartAgain
    \/ Stop
    \/ StopResume
    \/ Tick
    \/ \E n \in Names, k \in Keys : Get(n, k)
    \/ \E n \in Names, k \in Keys, v \in Values : Write(n, k, v)
    \/ \E n \in Names, k \in Keys : Del(n, k)
    \/ \E r \in reqs : DbSettles(r)
    \/ \E r \in reqs : DbFails(r)
    \/ \E t \in Timers : CheckStorage(t)
    \/ \E p \in Sweepers : CheckStorageResume(p)
    \/ \E h \in Handles : CloseDone(h)
    \/ \E h \in Handles : CloseFails(h)

\* The same, for callers that keep one more call in flight, and make two calls.
CallAlongside(op, name, key, value) == CallWithin(MaxReqs + 1, op, name, key, value)

NextConcurrent ==
    \/ Start
    \/ Stop
    \/ StopResume
    \/ Tick
    \/ \E n \in Names, k \in Keys : CallAlongside("get", n, k, Null)
    \/ \E n \in Names, k \in Keys, v \in Values : CallAlongside("write", n, k, v)
    \/ \E n \in Names, k \in Keys : CallAlongside("del", n, k, Null)
    \/ \E r \in reqs : DbSettles(r)
    \/ \E r \in reqs : DbFails(r)
    \/ \E t \in Timers : CheckStorage(t)
    \/ \E p \in Sweepers : CheckStorageResume(p)
    \/ \E h \in Handles : CloseDone(h)
    \/ \E h \in Handles : CloseFails(h)

InitConcurrent == Fresh(MaxCalls - 2)

SpecConcurrent == InitConcurrent /\ [][NextConcurrent]_vars

\* ------------------------------------------------------------ HTTP routes
\* (src/unnamed/part_000)  A string is the sequence of its characters.
RouteChars == {"a", "b", ":"}
RouteKeys == UNION {[1..m -> RouteChars] : m \in 0..MaxKeyLen}
RouteNames == {<<"s">>, <<"s", "t">>}
Undefined == <<"undefined">>

\* the create route's return value: `${body.name}:${body.key}`
MakeId(name, key) == name \o <<":">> \o key

RECURSIVE Split(_)
\* id.split(":"): the pieces of id between the separators, all of them
Split(id) ==
    IF \E i \in 1..Len(id) : id[i] = ":"
    THEN LET i == CHOOSE j \in 1..Len(id) : id[j] = ":" /\ \A l \in 1..(j-1) : id[l] # ":"
         IN  <<SubSeq(id, 1, i - 1)>> \o Split(SubSeq(id, i + 1, Len(id)))
    ELSE <<id>>

\* parts[i], indices from 0
Part(parts, i) == IF i + 1 <= Len(parts) THEN parts[i + 1] ELSE Undefined

\* The create route for a body with name and key, its write having returned true:
\* the id is returned to the client.
CreateRoute(name, key) ==
    /\ route' = [op |-> "create", name |-> name, key |-> key,
                 id |-> MakeId(name, key), args |-> <<name, key>>]
    /\ UNCHANGED engineVars

\* The read / delete route called with the id the create route returned, up to the
\* call of this.get / this.del with (parts[0], parts[1]); 404 for a part undefined.
IdRoute(op) ==
    /\ route.op # "none"
    /\ LET parts == Split(route.id)
       IN  route' = IF Part(parts, 0) = Undefined \/ Part(parts, 1) = Undefined
                    THEN [route EXCEPT !.op = "invalid", !.args = <<>>]
                    ELSE [route EXCEPT !.op = op,
                                       !.args = <<Part(parts, 0), Part(parts, 1)>>]
    /\ UNCHANGED engineVars

ReadRoute == IdRoute("read")
DeleteRoute == IdRoute("delete")

NextRoutes ==
    \/ \E name \in RouteNames, key \in RouteKeys : CreateRoute(name, key)
    \/ ReadRoute
    \/ DeleteRoute

SpecRoutes == Init /\ [][NextRoutes]_vars

\* The state reached from Init when get("s1", "k1") and get("s2", "k1") have
\* returned: two stores are open, nothing is stored.  MaxCalls - made further calls
\* fit the budget of calls.
Opened(made) ==
    /\ keepOpenInterval \in KeepOpenChoices
    /\ timerDue = [t \in Timers |-> -1]
    /\ nstarts = 0
    /\ closeStorageTimer = 0
    /\ stores = <<1, 2>>
    /\ hname = [h \in Handles |-> IF h = 1 THEN "s1" ELSE IF h = 2 THEN "s2" ELSE "none"]
    /\ hstatus = [h \in Handles |-> IF h \in {1, 2} THEN "open" ELSE "none"]
    /\ age = [h \in Handles |-> 0]
    /\ closeCount = [h \in Handles |-> 0]
    /\ disk = [n \in {Location(n) : n \in Names} |-> [k \in Keys |-> Absent]]
    /\ ncalls = made
    /\ reqs = {}
    /\ last = NoLast
    /\ sweeps = [p \in Sweepers |-> IdleSweep]
    /\ swept = {}
    /\ stopPc = "idle"
    /\ stopH = 0
    /\ stopVisited = {}
    /\ settled = [n \in Names |-> [k \in Keys |-> NoSettled]]
    /\ regular = [h \in Handles |-> h \in {1, 2}]
    /\ route = NoRoute

InitOpened == Opened(1)

SpecOpened == InitOpened /\ [][Next]_vars

\* The event loop runs what is runnable: time passes, a timer that is due fires, a
\* continuation that is ready runs, and LevelDB ends every call and every close it
\* has taken (the close possibly with an error: CloseFails disables CloseDone).
Fairness ==
    /\ WF_vars(Tick)
    /\ \A t \in Timers : WF_vars(CheckStorage(t))
    /\ \A p \in Sweepers : WF_vars(CheckStorageResume(p))
    /\ \A h \in Handles : WF_vars(CloseDone(h))
    /\ WF_vars(\E r \in reqs : DbSettles(r))

InitOpenedLast == Opened(2)

SpecRestart == InitOpenedLast /\ [][NextRestart]_vars

SpecFair == InitOpenedLast /\ [][Next]_vars /\ Fairness

\* ================================================================ claims
Created == {h \in Handles : hstatus[h] # "none"}
InRegistry == Range(stores)

\* h is the db of a store that the sweep evicted before: entries leave the registry
\* only by checkStorage's delete, and getStore opens a db only for an absent name.
Reopened(h) == \E g \in Created : g < h /\ hname[g] = hname[h]

\* no db.close() has failed
NoCloseFailed == \A h \in Created : hstatus[h] # "broken"

\* C1: a get of a key whose last write returned success, no write or del of the key
\* having been made since, returns the value written (the persistence layer reporting
\* no I/O error to the get or to a close, and stop() not having been called).
CreateThenRead ==
    (/\ last.op = "get"
     /\ last.expect.val \in Values
     /\ ~last.fault
     /\ NoCloseFailed
     /\ stopPc = "idle")
        => last.result = last.expect.val

\* C2: when stop() has returned, close has been called exactly once on every db that
\* was opened.
StopClosesOnce ==
    stopPc = "done" => \A h \in Created : closeCount[h] = 1

\* C3: when stop() has returned, the registry is empty.
StopClearsRegistry ==
    stopPc = "done" => stores = <<>>

\* C4: while stop() has not been called, a db is in the registry if and only if it is
\* open and close was never called on it.
RegistryIffOpen ==
    stopPc = "idle" =>
        \A h \in Created :
            h \in InRegistry <=> (hstatus[h] = "open" /\ closeCount[h] = 0)

\* When a checkStorage() pass has run to its end, no entry that had not been
\* accessed for longer than the interval when the pass began is in the registry.
SweptAbsent ==
    swept \cap InRegistry = {}

\* With the interval timer set, an entry not accessed for longer than the interval
\* leaves the registry, unless it is accessed again, stop() is called or a close
\* fails.
IdleLeadsToAbsent ==
    \A h \in Handles :
        (closeStorageTimer # 0 /\ h \in InRegistry /\ age[h] > keepOpenInterval)
            ~> (\/ h \notin InRegistry
                \/ age[h] <= keepOpenInterval
                \/ stopPc # "idle"
                \/ ~NoCloseFailed)

\* C5: with T > 0 and the sweep started, a store not accessed for longer than T is
\* absent from the registry once a checkStorage() pass that began after that has run
\* to its end, and an untouched store is eventually evicted (no close failing, stop()
\* not called).
IdleEviction ==
    []SweptAbsent /\ IdleLeadsToAbsent

IdleEvictionWitness ==
    /\ swept # {}
    /\ \E h \in swept : hstatus[h] = "closed" /\ ~HasStore(hname[h])

EvictionTransparent ==
    (/\ last.op = "get"
     /\ last.expect.val \in Values
     /\ last.expect.h # last.h
     /\ Reopened(last.h)
     /\ ~last.fault
     /\ NoCloseFailed
     /\ stopPc = "idle")
        => last.result = last.expect.val

\* C8: get returns null exactly when db.get fails or the key is absent, and the stored
\* string otherwise; write and del return false exactly when db.put / db.del fail;
\* none of them throws.
NoPropagation ==
    /\ last.op = "get" =>
         /\ last.result = Null <=> (last.failed \/ last.stored = Absent)
         /\ last.result # Null => Utf8(last.result) = last.stored
    /\ last.op \in {"write", "del"} =>
         last.result = (IF last.failed THEN False ELSE True)
    /\ last.result \in Values \cup {Null, True, False}

NoPropagationWitness ==
    /\ last.op = "write"
    /\ last.fault
    /\ last.result = False

\* the registry entry of store n: its StoreDetails, lastAccessed and db
EntryOf(n) ==
    [h |-> Lookup(n),
     age |-> IF HasStore(n) THEN age[Lookup(n)] ELSE 0,
     db |-> IF HasStore(n) THEN hstatus[Lookup(n)] ELSE "none"]

\* a step of a write or del on store n: the call, or the return
MutationStep(n) ==
    \/ \E k \in Keys, v \in Values : Write(n, k, v)
    \/ \E k \in Keys : Del(n, k)
    \/ \E r \in reqs : Mutates(r.op) /\ r.name = n /\ (DbSettles(r) \/ DbFails(r))

\* C9: a step of a write or del on store n changes, of any other store, neither the
\* directory nor the registry entry (StoreDetails, lastAccessed, db).
Isolation ==
    [][\A n \in Names : MutationStep(n) =>
          \A s2 \in Names \ {n} :
              /\ disk'[Location(s2)] = disk[Location(s2)]
              /\ EntryOf(s2)' = EntryOf(s2)]_vars

IsolationWitness ==
    /\ last.op = "write"
    /\ last.result = True
    /\ \E s2 \in Names :
         /\ s2 # hname[last.h]
         /\ HasStore(s2)
         /\ disk[Location(s2)] # disk[Location(hname[last.h])]

\* C10: a get of a key that was written and then deleted by a del that returned
\* success, no write of the key having been made since, returns null.
DeleteThenRead ==
    (last.op = "get" /\ last.expect.val = Deleted) => last.result = Null

DeleteThenReadWitness ==
    /\ last.op = "get"
    /\ last.expect.val = Deleted
    /\ ~last.failed
    /\ last.result = Null

\* C11: with an interval of 0, whether or not start() was called, while stop() has not
\* been called every db that was opened is in the registry and close was never
\* called on it.
NeverAutoClose ==
    (keepOpenInterval = 0 /\ stopPc = "idle") =>
        \A h \in Created : h \in InRegistry /\ closeCount[h] = 0

NeverAutoCloseWitness ==
    /\ keepOpenInterval = 0
    /\ nstarts > 0
    /\ stopPc = "idle"
    /\ \E h \in InRegistry : age[h] > keepOpenInterval /\ hstatus[h] = "open"

\* C12: the read or delete route, called with the id the create route returned for
\* (name, key), calls get / del with that name and that key.
IdRoundTrip ==
    route.op \in {"read", "delete", "invalid"} => route.args = <<route.name, route.key>>

\* the same, for keys that hold no separator
IdRoundTripPlainKey ==
    (/\ route.op \in {"read", "delete", "invalid"}
     /\ \A i \in 1..Len(route.key) : route.key[i] # ":")
        => route.args = <<route.name, route.key>>

\* C13: when a checkStorage() pass ends, whether or not a close failed during it, no
\* entry it selected is in the registry.
CloseFailureContained ==
    [][\A p \in Sweepers :
          (sweeps[p].pc # "idle" /\ sweeps'[p].pc = "idle") =>
              sweeps[p].sel \cap Range(stores') = {}]_vars

\* C14: a checkStorage() pass calls close only on an entry that, at the moment of the
\* call, has not been accessed for longer than the interval: an entry accessed after
\* the pass selected it is not closed by the pass.
BumpedNotEvicted ==
    [][\A p \in Sweepers :
          (/\ sweeps'[p].closed # <<>>
           /\ sweeps'[p].closed # sweeps[p].closed)
              => age[Head(sweeps'[p].closed)] > keepOpenInterval]_vars

\* C15: once stop() has been called, no checkStorage() pass begins.
NoSweepAfterStop ==
    [][stopPc # "idle" => ~\E t \in Timers : CheckStorage(t)]_vars

\* the dbs created so far for store name n
DbsOf(n) == {h \in Created : hname[h] = n}

\* two calls in flight together for one store name that was never opened before them
RacingCalls ==
    {pair \in reqs \X reqs :
        /\ pair[1] # pair[2]
        /\ pair[1].name = pair[2].name
        /\ DbsOf(pair[1].name) \subseteq {pair[1].h, pair[2].h}}

\* C16, as the code has it: two calls in flight together for a store name that was
\* never opened before them hold one and the same db, the only one created for the
\* name: getStore looks the name up and inserts the entry in one uninterrupted run.
NoCreateRace ==
    \A pair \in RacingCalls :
        /\ pair[1].h = pair[2].h
        /\ DbsOf(pair[1].name) = {pair[1].h}

NoCreateRaceWitness ==
    \E pair \in RacingCalls :
        /\ pair[1].h = pair[2].h
        /\ pair[1].accepted /\ pair[2].accepted
        /\ Lookup(pair[1].name) = pair[1].h

\* C16, as stated: two calls in flight together for a store name that was never
\* opened before them each hold a db of their own, one of them out of the registry.
CreateRace ==
    \A pair \in RacingCalls :
        /\ pair[1].h # pair[2].h
        /\ \E h \in {pair[1].h, pair[2].h} : h \notin InRegistry /\ closeCount[h] = 0

\* the calls made in this step
NewCalls == {r \in reqs' : \A q \in reqs : [q EXCEPT !.sub = r.sub] # r}

\* C17: get, write and del, called while stop() has not been called, make their db
\* call only on a db on which close has not been called.
NoUseAfterClose ==
    [][stopPc = "idle" => \A r \in NewCalls : closeCount[r.h] = 0]_vars

\* C18: every db on which close was never called is the db of the registry's entry for
\* its name.
NoOrphan ==
    \A h \in Created : closeCount[h] = 0 => Lookup(hname[h]) = h

====
